---- MODULE Spec2Model ----
(***************************************************************************)
(* Model of the TTL response cache of src/lib/cache.ts: the ApiCache       *)
(* store (a Map from key to {data, expiresAt}), the wall clock it reads,   *)
(* and the two compute-and-cache wrappers getCachedData and withCache,     *)
(* whose calls suspend on the wrapped operation and resume later.          *)
(***************************************************************************)
EXTENDS Integers, Sequences, FiniteSets, TLC

(* ------------------------------ bounds --------------------------------- *)

\* the clock stops advancing once it has reached MaxTimeSec seconds
MaxTimeSec == 3
\* the same, where wrapper calls are made
MaxCallTimeSec == 2

(* ----------------------------- constants ------------------------------- *)

\* set: Date.now() + ttlSeconds * 1000
MsPerSec == 1000
\* set, getCachedData, withCache: ttlSeconds: number = 60
DefaultTtl == 60

(* ------------------------------ domains -------------------------------- *)

CacheKeys == {"k1", "k2"}
\* null, as returned by get for a miss and as a possible resolved value
Null == "null"
Values == {"a", "b", Null}
Errors == {"e1", "e2"}
TTLs == {0, 1, 2}
\* the TTLs (seconds) given where wrapper calls are made
CallTTLs == {0, 1}
\* slots for the wrapper calls suspended on their wrapped operation at once
CallIds == {1, 2}
\* argument lists a withCache wrapper is called with, and the key its keyFn
\* derives from each
Args == {"p", "q"}
keyFn == [a \in Args |-> IF a = "p" THEN "k1" ELSE "k2"]
Idle == [pc |-> "idle"]
NoWrite == [val |-> Null, until |-> -1]

VARIABLES
  cache,    \* ApiCache.cache: the Map, as its entries in insertion order
  now,      \* Date.now(), milliseconds
  pending,  \* per call slot: Idle, or a wrapper call awaiting its operation
  last,     \* the most recent operation, what it returned to its caller (val,
            \* or list for keys()) and the keys whose entries it removed
  written,  \* per key, while its entry is stored: the value the most recent
            \* set of that key was given and the instant its TTL runs until
            \* (the instant of that set plus TTL seconds)
  timer     \* whether the module, when loaded, installed the cleanup interval

vars == <<cache, now, pending, last, written, timer>>

(* --------------------------- the Map (ES2015) --------------------------- *)

RECURSIVE IndexOf(_, _, _)
\* position of key in the entry list from position i on, 0 when not stored
IndexOf(c, key, i) ==
  IF i > Len(c) THEN 0
  ELSE IF c[i].key = key THEN i
  ELSE IndexOf(c, key, i + 1)

MapHas(c, key) == IndexOf(c, key, 1) # 0

\* Map.prototype.get: the entry, only used where MapHas holds
MapGet(c, key) == c[IndexOf(c, key, 1)]

\* Map.prototype.set: an existing key keeps its position, a new one is appended
MapSet(c, key, entry) ==
  IF MapHas(c, key)
  THEN [c EXCEPT ![IndexOf(c, key, 1)] = [key |-> key, data |-> entry.data, expiresAt |-> entry.expiresAt]]
  ELSE Append(c, [key |-> key, data |-> entry.data, expiresAt |-> entry.expiresAt])

\* Map.prototype.delete
MapDelete(c, key) ==
  IF MapHas(c, key)
  THEN SubSeq(c, 1, IndexOf(c, key, 1) - 1) \o SubSeq(c, IndexOf(c, key, 1) + 1, Len(c))
  ELSE c

(* ------------------------------ ApiCache -------------------------------- *)

\* set that never shortens the life of an entry: an entry already stored keeps
\* its expiresAt when that is later than the new one
set_KeepsLaterExpiry(c, key, value, ttlSeconds, t) ==
  LET expiresAt == t + ttlSeconds * MsPerSec
      kept == IF MapHas(c, key) /\ MapGet(c, key).expiresAt > expiresAt
              THEN MapGet(c, key).expiresAt
              ELSE expiresAt
  IN  MapSet(c, key, [data |-> value, expiresAt |-> kept])

\* set taking a zero TTL for a missing one (ttlSeconds || 60)
set_ZeroTtlAsDefault(c, key, value, ttlSeconds, t) ==
  LET expiresAt == t + (IF ttlSeconds = 0 THEN DefaultTtl ELSE ttlSeconds) * MsPerSec
  IN  MapSet(c, key, [data |-> value, expiresAt |-> expiresAt])

\* set with the TTL taken as milliseconds (the factor 1000 forgotten)
set_TtlAsMs(c, key, value, ttlSeconds, t) ==
  LET expiresAt == t + ttlSeconds
  IN  MapSet(c, key, [data |-> value, expiresAt |-> expiresAt])

\* set(key, value, ttlSeconds) at instant t
set(c, key, value, ttlSeconds, t) ==
  LET expiresAt == t + ttlSeconds * MsPerSec
  IN  MapSet(c, key, [data |-> value, expiresAt |-> expiresAt])

\* get treating an entry as expired from the instant expiresAt on
get_ExpiredAtBoundary(c, key, t) ==
  IF ~MapHas(c, key)
  THEN [ret |-> Null, cache |-> c]
  ELSE IF t >= MapGet(c, key).expiresAt
  THEN [ret |-> Null, cache |-> MapDelete(c, key)]
  ELSE [ret |-> MapGet(c, key).data, cache |-> c]

\* get without the expiry check
get_IgnoresExpiry(c, key, t) ==
  IF ~MapHas(c, key)
  THEN [ret |-> Null, cache |-> c]
  ELSE [ret |-> MapGet(c, key).data, cache |-> c]

\* get comparing the clock in seconds with expiresAt in milliseconds
get_SecondsVsMs(c, key, t) ==
  IF ~MapHas(c, key)
  THEN [ret |-> Null, cache |-> c]
  ELSE IF t \div MsPerSec > MapGet(c, key).expiresAt
  THEN [ret |-> Null, cache |-> MapDelete(c, key)]
  ELSE [ret |-> MapGet(c, key).data, cache |-> c]

\* get that reports an expired entry absent but leaves it stored
get_NoEvict(c, key, t) ==
  IF ~MapHas(c, key)
  THEN [ret |-> Null, cache |-> c]
  ELSE IF t > MapGet(c, key).expiresAt
  THEN [ret |-> Null, cache |-> c]
  ELSE [ret |-> MapGet(c, key).data, cache |-> c]

\* get that, on a hit, pushes the entry's expiry a second further
get_SlidesExpiry(c, key, t) ==
  IF ~MapHas(c, key)
  THEN [ret |-> Null, cache |-> c]
  ELSE IF t > MapGet(c, key).expiresAt
  THEN [ret |-> Null, cache |-> MapDelete(c, key)]
  ELSE [ret |-> MapGet(c, key).data,
        cache |-> MapSet(c, key, [data |-> MapGet(c, key).data,
                                  expiresAt |-> MapGet(c, key).expiresAt + MsPerSec])]

\* get that remembers a miss by storing null under the absent key
get_RemembersMiss(c, key, t) ==
  IF ~MapHas(c, key)
  THEN [ret |-> Null, cache |-> MapSet(c, key, [data |-> Null, expiresAt |-> t])]
  ELSE IF t > MapGet(c, key).expiresAt
  THEN [ret |-> Null, cache |-> MapDelete(c, key)]
  ELSE [ret |-> MapGet(c, key).data, cache |-> c]

\* get(key) at instant t: what it returns and the store it leaves
get(c, key, t) ==
  IF ~MapHas(c, key)
  THEN [ret |-> Null, cache |-> c]
  ELSE IF t > MapGet(c, key).expiresAt
  THEN [ret |-> Null, cache |-> MapDelete(c, key)]
  ELSE [ret |-> MapGet(c, key).data, cache |-> c]

\* delete that empties the whole store
delete_All(c, key) == << >>

\* delete(key)
delete(c, key) == MapDelete(c, key)

\* keys() listing only the entries that have not expired
keys_ValidOnly(c) ==
  LET valid == SelectSeq(c, LAMBDA e : ~(now > e.expiresAt))
  IN  [i \in 1..Len(valid) |-> valid[i].key]

\* keys()
keys(c) == [i \in 1..Len(c) |-> c[i].key]

RECURSIVE cleanExpiredFrom_SkipsNext(_, _, _)
\* the loop stepping on after a removal, as over an array that has shifted
cleanExpiredFrom_SkipsNext(c, i, t) ==
  IF i > Len(c) THEN c
  ELSE IF t > c[i].expiresAt
  THEN cleanExpiredFrom_SkipsNext(MapDelete(c, c[i].key), i + 1, t)
  ELSE cleanExpiredFrom_SkipsNext(c, i + 1, t)

RECURSIVE cleanExpiredFrom(_, _, _)
\* the for-of loop of cleanExpired over the live Map: i is the iterator's
\* position, which a removal of the entry at i leaves on the next entry
cleanExpiredFrom(c, i, t) ==
  IF i > Len(c) THEN c
  ELSE IF t > c[i].expiresAt
  THEN cleanExpiredFrom(MapDelete(c, c[i].key), i, t)
  ELSE cleanExpiredFrom(c, i + 1, t)

\* cleanExpired() at instant t
cleanExpired(c, t) == cleanExpiredFrom(c, 1, t)

\* clear that removes the expired entries only
clear_ExpiredOnly(c) == cleanExpired(c, now)

\* clear()
clear(c) == << >>

(* ------------------------------ actions --------------------------------- *)

\* the keys stored in c that d no longer stores
Removed(c, d) == {k \in CacheKeys : MapHas(c, k) /\ ~MapHas(d, k)}

\* what an operation leaves in last
Did(op, key, val) ==
  [op |-> op, key |-> key, val |-> val, list |-> << >>, evicted |-> Removed(cache, cache')]

\* records of written kept for the keys that store c still holds
StillStored(c) == [k \in CacheKeys |-> IF MapHas(c, k) THEN written[k] ELSE NoWrite]

\* the module has been loaded: the singleton store is empty, and the cleanup
\* interval is installed if typeof window === 'undefined' (windowUndefined)
Loaded(windowUndefined) ==
  /\ cache = << >>
  /\ now = 0
  /\ pending = [i \in CallIds |-> Idle]
  /\ last = [op |-> "init", key |-> "", val |-> Null, list |-> << >>, evicted |-> {}]
  /\ written = [k \in CacheKeys |-> NoWrite]
  /\ timer = windowUndefined

\* the module loaded on a server; no operation of the store or of the wrappers
\* reads the execution context
Init == Loaded(TRUE)

\* the module loaded on a server or in a browser
InitAnywhere == \E windowUndefined \in BOOLEAN : Loaded(windowUndefined)

\* the wall clock moves on by s seconds, up to horizonSec
Advance(s, horizonSec) ==
  /\ now + s * MsPerSec <= horizonSec * MsPerSec
  /\ now' = now + s * MsPerSec
  /\ UNCHANGED <<cache, pending, written, timer>>
  /\ last' = Did("advance", "", Null)

\* the wall clock is set back by s seconds: Date.now() is not monotonic
Rewind(s) ==
  /\ now - s * MsPerSec >= 0
  /\ now' = now - s * MsPerSec
  /\ UNCHANGED <<cache, pending, written, timer>>
  /\ last' = Did("rewind", "", Null)

\* apiCache.set(key, value, ttlSeconds)
Set(key, value, ttlSeconds) ==
  /\ cache' = set(cache, key, value, ttlSeconds, now)
  /\ written' = [written EXCEPT ![key] = [val |-> value, until |-> now + ttlSeconds * MsPerSec]]
  /\ last' = Did("set", key, value)
  /\ UNCHANGED <<now, pending, timer>>

\* apiCache.get(key)
Get(key) ==
  /\ cache' = get(cache, key, now).cache
  /\ last' = Did("get", key, get(cache, key, now).ret)
  /\ written' = StillStored(cache')
  /\ UNCHANGED <<now, pending, timer>>

\* apiCache.delete(key)
Delete(key) ==
  /\ cache' = delete(cache, key)
  /\ written' = StillStored(cache')
  /\ last' = Did("delete", key, Null)
  /\ UNCHANGED <<now, pending, timer>>

\* apiCache.clear()
Clear ==
  /\ cache' = clear(cache)
  /\ written' = StillStored(cache')
  /\ last' = Did("clear", "", Null)
  /\ UNCHANGED <<now, pending, timer>>

\* apiCache.keys(): reads only, and returns the list of the stored keys
Keys ==
  /\ UNCHANGED <<cache, now, pending, written, timer>>
  /\ last' = [Did("keys", "", Null) EXCEPT !.list = keys(cache)]

\* apiCache.cleanExpired()
CleanExpired ==
  /\ cache' = cleanExpired(cache, now)
  /\ last' = Did("cleanExpired", "", Null)
  /\ written' = StillStored(cache')
  /\ UNCHANGED <<now, pending, timer>>

\* the callback of the interval the module installs when it is loaded where
\* typeof window === 'undefined': it runs apiCache.cleanExpired(). Only that
\* it keeps firing is modelled, not the five minutes between two firings.
Interval ==
  /\ timer
  /\ CleanExpired

\* the slots no suspended call holds
FreeSlots == {i \in CallIds : pending[i] = Idle}

\* the slot a call that suspends next is kept in
NextSlot == CHOOSE i \in FreeSlots : \A j \in FreeSlots : i <= j

\* a lookup that takes the presence of the key, not the value read, as the
\* test of a hit
Lookup_HitIfStored(key, ttlSeconds) ==
  LET cached == get(cache, key, now).ret
  IN  /\ cache' = get(cache, key, now).cache
      /\ IF MapHas(cache', key)
         THEN /\ UNCHANGED pending
              /\ last' = Did("hit", key, cached)
         ELSE /\ FreeSlots # {}
              /\ pending' = [pending EXCEPT ![NextSlot] =
                    [pc |-> "awaiting", key |-> key, ttl |-> ttlSeconds]]
              /\ last' = Did("miss", key, Null)
      /\ written' = StillStored(cache')
      /\ UNCHANGED <<now, timer>>

\* a lookup that, on a miss, invokes the wrapped operation once for every
\* free slot
Lookup_InvokesTwice(key, ttlSeconds) ==
  LET cached == get(cache, key, now).ret
  IN  /\ cache' = get(cache, key, now).cache
      /\ IF cached # Null
         THEN /\ UNCHANGED pending
              /\ last' = Did("hit", key, cached)
         ELSE /\ FreeSlots # {}
              /\ pending' = [i \in CallIds |->
                    IF i \in FreeSlots
                    THEN [pc |-> "awaiting", key |-> key, ttl |-> ttlSeconds]
                    ELSE pending[i]]
              /\ last' = Did("miss", key, Null)
      /\ written' = StillStored(cache')
      /\ UNCHANGED <<now, timer>>

\* a lookup that, on a miss, joins the call already awaiting the same key
\* instead of invoking the wrapped operation once more
Lookup_SingleFlight(key, ttlSeconds) ==
  LET cached == get(cache, key, now).ret
  IN  /\ cache' = get(cache, key, now).cache
      /\ IF cached # Null
         THEN /\ UNCHANGED pending
              /\ last' = Did("hit", key, cached)
         ELSE /\ FreeSlots # {}
              /\ IF \E i \in CallIds : pending[i] # Idle /\ pending[i].key = key
                 THEN UNCHANGED pending
                 ELSE pending' = [pending EXCEPT ![NextSlot] =
                        [pc |-> "awaiting", key |-> key, ttl |-> ttlSeconds]]
              /\ last' = Did("miss", key, Null)
      /\ written' = StillStored(cache')
      /\ UNCHANGED <<now, timer>>

\* the lookup both wrappers start with, and what follows it without suspending:
\* a hit returns the cached value; a miss invokes the wrapped operation and
\* suspends the call until that operation settles
Lookup(key, ttlSeconds) ==
  LET cached == get(cache, key, now).ret
  IN  /\ cache' = get(cache, key, now).cache
      /\ IF cached # Null
         THEN /\ UNCHANGED pending
              /\ last' = Did("hit", key, cached)
         ELSE /\ FreeSlots # {}
              /\ pending' = [pending EXCEPT ![NextSlot] =
                    [pc |-> "awaiting", key |-> key, ttl |-> ttlSeconds]]
              /\ last' = Did("miss", key, Null)
      /\ written' = StillStored(cache')
      /\ UNCHANGED <<now, timer>>

\* getCachedData(key, fetchFn, ttlSeconds), up to its await
GetCachedData(key, ttlSeconds) == Lookup(key, ttlSeconds)

\* the function withCache(fn, keyFn, ttlSeconds) returns, called with args,
\* up to its await
WithCache(args, ttlSeconds) == Lookup(keyFn[args], ttlSeconds)

\* the resumption storing the result only when the key holds no entry by then
Resolve_OnlyIfAbsent(i, value) ==
  /\ pending[i] # Idle
  /\ cache' = IF MapHas(cache, pending[i].key)
              THEN cache
              ELSE set(cache, pending[i].key, value, pending[i].ttl, now)
  /\ written' = IF MapHas(cache, pending[i].key)
                THEN written
                ELSE [written EXCEPT ![pending[i].key] =
                        [val |-> value, until |-> now + pending[i].ttl * MsPerSec]]
  /\ pending' = [pending EXCEPT ![i] = Idle]
  /\ last' = Did("resolve", pending[i].key, value)
  /\ UNCHANGED <<now, timer>>

\* the resumption storing the result without passing the wrapper's TTL on, so
\* that set falls back on its default
Resolve_DefaultTtl(i, value) ==
  /\ pending[i] # Idle
  /\ cache' = set(cache, pending[i].key, value, DefaultTtl, now)
  /\ written' = [written EXCEPT ![pending[i].key] =
        [val |-> value, until |-> now + pending[i].ttl * MsPerSec]]
  /\ pending' = [pending EXCEPT ![i] = Idle]
  /\ last' = Did("resolve", pending[i].key, value)
  /\ UNCHANGED <<now, timer>>

\* the wrapped operation of the call in slot i resolves with value: the call
\* resumes after its await, stores the value and returns it
Resolve(i, value) ==
  /\ pending[i] # Idle
  /\ cache' = set(cache, pending[i].key, value, pending[i].ttl, now)
  /\ written' = [written EXCEPT ![pending[i].key] =
        [val |-> value, until |-> now + pending[i].ttl * MsPerSec]]
  /\ pending' = [pending EXCEPT ![i] = Idle]
  /\ last' = Did("resolve", pending[i].key, value)
  /\ UNCHANGED <<now, timer>>

\* a wrapper that catches the failure and stores it before rethrowing
Reject_CachesError(i, err) ==
  /\ pending[i] # Idle
  /\ cache' = set(cache, pending[i].key, err, pending[i].ttl, now)
  /\ pending' = [pending EXCEPT ![i] = Idle]
  /\ last' = Did("reject", pending[i].key, err)
  /\ UNCHANGED <<now, written, timer>>

\* the wrapped operation of the call in slot i rejects with err: the await
\* throws and the call rejects with err, having stored nothing
Reject(i, err) ==
  /\ pending[i] # Idle
  /\ pending' = [pending EXCEPT ![i] = Idle]
  /\ UNCHANGED <<cache, now, written, timer>>
  /\ last' = Did("reject", pending[i].key, err)

\* the store alone: no wrapper call is ever made
NextStore ==
  \/ \E s \in {1, 2} : Advance(s, MaxTimeSec)
  \/ \E k \in CacheKeys, v \in Values, t \in TTLs : Set(k, v, t)
  \/ \E k \in CacheKeys : Get(k)
  \/ \E k \in CacheKeys : Delete(k)
  \/ Clear
  \/ Keys
  \/ CleanExpired

SpecStore == Init /\ [][NextStore]_vars

\* direct reads and wrapper calls on the shared store
NextReads ==
  \/ \E s \in {1, 2} : Advance(s, MaxCallTimeSec)
  \/ \E k \in CacheKeys, v \in Values, t \in CallTTLs : Set(k, v, t)
  \/ \E k \in CacheKeys : Get(k)
  \/ \E k \in CacheKeys, t \in CallTTLs : GetCachedData(k, t)
  \/ \E a \in Args, t \in CallTTLs : WithCache(a, t)
  \/ \E i \in CallIds, v \in Values : Resolve(i, v)

SpecReads == Init /\ [][NextReads]_vars

\* the store under a wall clock that may also be set back
NextClock ==
  \/ \E s \in {1, 2} : Advance(s, MaxTimeSec)
  \/ \E s \in {1, 2} : Rewind(s)
  \/ \E k \in CacheKeys, v \in Values, t \in TTLs : Set(k, v, t)
  \/ \E k \in CacheKeys : Get(k)
  \/ \E k \in CacheKeys : Delete(k)
  \/ Clear
  \/ CleanExpired

SpecClock == Init /\ [][NextClock]_vars

\* the wrappers at work: their calls interleave, at their awaits, with the
\* clock, with the writes other callers make to the shared store (set, delete,
\* clear) and with the sweep
Next ==
  \/ \E s \in {1, 2} : Advance(s, MaxCallTimeSec)
  \/ \E k \in CacheKeys, v \in Values, t \in CallTTLs : Set(k, v, t)
  \/ \E k \in CacheKeys : Delete(k)
  \/ Clear
  \/ CleanExpired
  \/ \E k \in CacheKeys, t \in CallTTLs : GetCachedData(k, t)
  \/ \E a \in Args, t \in CallTTLs : WithCache(a, t)
  \/ \E i \in CallIds, v \in Values : Resolve(i, v)
  \/ \E i \in CallIds, e \in Errors : Reject(i, e)

Spec == Init /\ [][Next]_vars

\* the store left to itself wherever the module is loaded: callers write
\* entries and the clock moves on, but nobody reads, deletes or clears; the
\* interval callback runs where the interval was installed
NextSweep ==
  \/ \E s \in {1, 2} : Advance(s, MaxTimeSec)
  \/ \E k \in CacheKeys, v \in Values, t \in TTLs : Set(k, v, t)
  \/ Interval

\* an installed interval keeps firing, and callers keep writing
SpecSweep ==
  /\ InitAnywhere
  /\ [][NextSweep]_vars
  /\ WF_vars(Interval)
  /\ WF_vars(\E k \in CacheKeys, v \in Values, t \in TTLs : Set(k, v, t))

(* -------------------- strings, objects and axios ----------------------- *)

\* A string is the sequence of its pieces: a run of letters, digits and other
\* characters that no encoding touches is one piece, each other character is a
\* piece of its own ("$eq" is <<"$", "eq">>).
\* A parameter value is a string, [t |-> "str", s |-> pieces], or an object,
\* [t |-> "obj", e |-> entries], the entries being [k |-> key, v |-> value] in
\* property order.
Str(s) == [t |-> "str", s |-> s]
Obj(e) == [t |-> "obj", e |-> e]
Entry(k, v) == [k |-> k, v |-> v]

\* undefined, as an unset environment variable or a missing property reads
Undefined == "undefined"

\* the characters encodeURIComponent escapes, among those the model uses, and
\* their escapes; it leaves A-Z a-z 0-9 - _ . ! ~ * ' ( ) alone
Escaped == [c \in {"[", "]", "$", " ", "/", ":"} |->
              CASE c = "[" -> "%5B"
                [] c = "]" -> "%5D"
                [] c = "$" -> "%24"
                [] c = " " -> "%20"
                [] c = "/" -> "%2F"
                [] c = ":" -> "%3A"]

\* encodeURIComponent(s)
encodeURIComponent(s) ==
  [i \in 1..Len(s) |-> IF s[i] \in DOMAIN Escaped THEN Escaped[s[i]] ELSE s[i]]

\* String(value): a string is itself, a plain object is "[object Object]"
String(value) ==
  IF value.t = "str" THEN value.s ELSE <<"[", "object", " ", "Object", "]">>

RECURSIVE Join(_, _)
\* Array.prototype.join
Join(parts, sep) ==
  IF parts = << >> THEN << >>
  ELSE IF Len(parts) = 1 THEN parts[1]
  ELSE parts[1] \o sep \o Join(Tail(parts), sep)

RECURSIVE PropertyIndex(_, _, _)
\* position of the property k among the entries e from position i on, or 0
PropertyIndex(e, k, i) ==
  IF i > Len(e) THEN 0
  ELSE IF e[i].k = k THEN i
  ELSE PropertyIndex(e, k, i + 1)

RECURSIVE ObjectSpread_KeepsFirst(_, _)
\* a spread in which a property already there keeps its value
ObjectSpread_KeepsFirst(a, b) ==
  IF b = << >> THEN a
  ELSE ObjectSpread_KeepsFirst(
         IF PropertyIndex(a, b[1].k, 1) # 0
         THEN a
         ELSE Append(a, b[1]),
         Tail(b))

RECURSIVE ObjectSpread(_, _)
\* { ...a, ...b } on entry lists: a property of b replaces the value of the
\* same property of a in its place, a new property comes last
ObjectSpread(a, b) ==
  IF b = << >> THEN a
  ELSE ObjectSpread(
         IF PropertyIndex(a, b[1].k, 1) # 0
         THEN [a EXCEPT ![PropertyIndex(a, b[1].k, 1)] = b[1]]
         ELSE Append(a, b[1]),
         Tail(b))

\* what the server sends in a response body, as far as the handlers look into
\* it: data?.error?.message is undefined unless the body is an object with
\* an error object with a message
Bodies ==
  {[shape |-> "empty", message |-> Undefined],
   [shape |-> "noError", message |-> Undefined],
   [shape |-> "error", message |-> Undefined],
   [shape |-> "error", message |-> ""],
   [shape |-> "error", message |-> "Invalid identifier or password"]}

\* HTTP statuses of the responses axios rejects with
ErrorStatuses == {401, 404}
StatusTexts == {"", "Not Found"}
NoResponse == [status |-> 0, statusText |-> "", data |-> [shape |-> "empty", message |-> Undefined]]
Responses == [status : ErrorStatuses, statusText : StatusTexts, data : Bodies]

\* what an axios call settles with: it resolves with a response (of which the
\* callers use data), or rejects with an error that has a response (the server
\* answered, with a status outside 2xx), only a request (nothing came back), or
\* neither (the request could not be set up). The last shape is also that of
\* every other exception thrown inside a caller's try block.
Settlements ==
  [ok : {TRUE}, data : {[shape |-> "noError", message |-> Undefined]},
   hasResponse : {FALSE}, response : {NoResponse}, hasRequest : {FALSE}]
  \cup
  [ok : {FALSE}, data : {[shape |-> "empty", message |-> Undefined]},
   hasResponse : {TRUE}, response : Responses, hasRequest : BOOLEAN]
  \cup
  [ok : {FALSE}, data : {[shape |-> "empty", message |-> Undefined]},
   hasResponse : {FALSE}, response : {NoResponse}, hasRequest : BOOLEAN]

(* ------------------------------ strapi.ts ------------------------------- *)

\* process.env: NEXT_PUBLIC_STRAPI_API_URL and STRAPI_API_TOKEN, both unset or
\* both set
Envs ==
  {[apiUrl |-> Undefined, apiToken |-> Undefined],
   [apiUrl |-> "https://cms.example.com", apiToken |-> "test-token"]}

\* the urlParamsObject arguments fetchAPI is called with
ParamObjects ==
  {<< >>,
   <<Entry(<<"populate">>, Str(<<"*">>))>>,
   <<Entry(<<"filters">>, Obj(<<Entry(<<"slug">>, Obj(<<Entry(<<"$", "eq">>, Str(<<"test">>))>>))>>)),
     Entry(<<"populate">>, Str(<<"*">>))>>,
   <<Entry(<<"filters">>, Obj(<<Entry(<<"slug">>, Str(<<"my-article">>))>>))>>,
   <<Entry(<<"publicationState">>, Str(<<"live">>)), Entry(<<"sort">>, Str(<<"publishedAt", ":", "desc">>))>>}

Paths == {<<"/pages">>}

\* null, where a response body may stand
NullBody == [shape |-> "null", message |-> Undefined]

\* new StrapiApiError(message, statusCode = 500, details = null), called with
\* the arguments args: a parameter takes its default when its argument is
\* missing
StrapiApiError(args) ==
  [name |-> "StrapiApiError", message |-> args[1],
   statusCode |-> IF Len(args) >= 2 THEN args[2] ELSE 500,
   details |-> IF Len(args) >= 3 THEN args[3] ELSE NullBody]


\* getStrapiURL(path = '')
getStrapiURL(apiUrl, path) ==
  <<IF apiUrl = Undefined \/ apiUrl = "" THEN "http://localhost:1337" ELSE apiUrl>> \o path

\* the catch block of fetchAPI with its tests in the other order
fetchAPI_RequestFirst(apiUrl, apiToken, path, urlParamsObject, preview, settled) ==
  LET mergedOptions ==
        <<Entry(<<"Content-Type">>, Str(<<"application/json">>)),
          Entry(<<"Authorization">>,
                Str(<<"Bearer ", IF apiToken = Undefined THEN "" ELSE apiToken>>))>>
      queryParams == ObjectSpread(urlParamsObject,
        IF preview THEN <<Entry(<<"publicationState">>, Str(<<"preview">>))>> ELSE << >>)
      queryString == Join(
        [i \in 1..Len(queryParams) |->
           encodeURIComponent(queryParams[i].k) \o <<"=">>
             \o encodeURIComponent(String(queryParams[i].v))], <<"&">>)
      requestUrl == getStrapiURL(apiUrl, << >>) \o <<"/api">> \o path
        \o (IF queryString # << >> THEN <<"?">> \o queryString ELSE << >>)
  IN  [requestUrl |-> requestUrl,
       queryParams |-> queryParams,
       queryString |-> queryString,
       headers |-> mergedOptions,
       threw |-> ~settled.ok,
       value |-> settled.data,
       error |->
         IF settled.hasRequest
         THEN StrapiApiError(<<"Network error: No response from Strapi API", 0>>)
         ELSE IF settled.hasResponse
         THEN StrapiApiError(
                << <<"Strapi API error: ",
                     IF settled.response.statusText # "" THEN settled.response.statusText
                     ELSE "Unknown error">>,
                   settled.response.status, settled.response.data >>)
         ELSE StrapiApiError(<<"Error setting up API request">>)]

\* fetchAPI(path, urlParamsObject = {}, options = {}, preview = false) with no
\* options of the caller's, given what its axios.get settles with: the URL it requests, whether it throws,
\* the value it returns if not and the error it throws if so
fetchAPI(apiUrl, apiToken, path, urlParamsObject, preview, settled) ==
  LET mergedOptions ==
        <<Entry(<<"Content-Type">>, Str(<<"application/json">>)),
          Entry(<<"Authorization">>,
                Str(<<"Bearer ", IF apiToken = Undefined THEN "" ELSE apiToken>>))>>
      queryParams == ObjectSpread(urlParamsObject,
        IF preview THEN <<Entry(<<"publicationState">>, Str(<<"preview">>))>> ELSE << >>)
      queryString == Join(
        [i \in 1..Len(queryParams) |->
           encodeURIComponent(queryParams[i].k) \o <<"=">>
             \o encodeURIComponent(String(queryParams[i].v))], <<"&">>)
      requestUrl == getStrapiURL(apiUrl, << >>) \o <<"/api">> \o path
        \o (IF queryString # << >> THEN <<"?">> \o queryString ELSE << >>)
  IN  [requestUrl |-> requestUrl,
       queryParams |-> queryParams,
       queryString |-> queryString,
       headers |-> mergedOptions,
       threw |-> ~settled.ok,
       value |-> settled.data,
       error |->
         IF settled.hasResponse
         THEN StrapiApiError(
                << <<"Strapi API error: ",
                     IF settled.response.statusText # "" THEN settled.response.statusText
                     ELSE "Unknown error">>,
                   settled.response.status, settled.response.data >>)
         ELSE IF settled.hasRequest
         THEN StrapiApiError(<<"Network error: No response from Strapi API", 0>>)
         ELSE StrapiApiError(<<"Error setting up API request">>)]

(* ------------------------- the auth module ------------------------------ *)

\* new AuthError(message, statusCode = 401), called with the arguments args
AuthError(args) ==
  [name |-> "AuthError", message |-> args[1],
   statusCode |-> IF Len(args) >= 2 THEN args[2] ELSE 401]

\* error.response.data?.error?.message || fallback
MessageOr(data, fallback) ==
  IF data.shape = "error" /\ data.message # Undefined /\ data.message # ""
  THEN data.message
  ELSE fallback

Identifiers == {"test@example.com"}
Passwords == {"password123"}
Usernames == {"testuser"}
Jwts == {"jwt-token"}

\* login that drops the upstream status
login_NoStatus(apiUrl, identifier, password, settled) ==
  [method |-> "post",
   url |-> getStrapiURL(apiUrl, << >>) \o <<"/api/auth/local">>,
   sent |-> <<identifier, password>>,
   threw |-> ~settled.ok,
   value |-> settled.data,
   error |->
     IF settled.hasResponse
     THEN AuthError(<<MessageOr(settled.response.data, "Authentication failed")>>)
     ELSE AuthError(<<"Authentication request failed">>)]

\* login(identifier, password), given what its axios.post settles with
login(apiUrl, identifier, password, settled) ==
  [method |-> "post",
   url |-> getStrapiURL(apiUrl, << >>) \o <<"/api/auth/local">>,
   sent |-> <<identifier, password>>,
   threw |-> ~settled.ok,
   value |-> settled.data,
   error |->
     IF settled.hasResponse
     THEN AuthError(<<MessageOr(settled.response.data, "Authentication failed"),
                      settled.response.status>>)
     ELSE AuthError(<<"Authentication request failed">>)]

\* register(username, email, password), given what its axios.post settles with
register(apiUrl, username, email, password, settled) ==
  [method |-> "post",
   url |-> getStrapiURL(apiUrl, << >>) \o <<"/api/auth/local/register">>,
   sent |-> <<username, email, password>>,
   threw |-> ~settled.ok,
   value |-> settled.data,
   error |->
     IF settled.hasResponse
     THEN AuthError(<<MessageOr(settled.response.data, "Registration failed"),
                      settled.response.status>>)
     ELSE AuthError(<<"Registration request failed">>)]

\* getCurrentUser(token), given what its axios.get settles with
getCurrentUser(apiUrl, token, settled) ==
  [method |-> "get",
   url |-> getStrapiURL(apiUrl, << >>) \o <<"/api/users/me?populate=role">>,
   sent |-> <<"Bearer ", token>>,
   threw |-> ~settled.ok,
   value |-> settled.data,
   error |->
     IF settled.hasResponse
     THEN AuthError(<<MessageOr(settled.response.data, "Failed to retrieve user profile"),
                      settled.response.status>>)
     ELSE AuthError(<<"User profile request failed">>)]

(* -------------------------- the preview route --------------------------- *)

\* searchParams.get('secret'): null when the parameter is missing
SecretParams == {Null, "", "s3cret", "wrong"}
\* searchParams.get('slug')
SlugParams == {Null, "", "about-us"}
\* process.env.PREVIEW_SECRET
PreviewSecrets == {Undefined, "", "s3cret"}
\* process.env.NODE_ENV
NodeEnvs == {"development", "production"}

\* the check letting a request through once either half of it is satisfied
GET_EitherSuffices(secret, slug, previewSecret, nodeEnv) ==
  IF secret # previewSecret /\ (slug = Null \/ slug = "")
  THEN [status |-> 401, statusText |-> "Unauthorized",
        error |-> "Invalid token or missing slug",
        location |-> << >>, cookies |-> << >>]
  ELSE [status |-> 307, statusText |-> "",
        error |-> "",
        location |-> <<"/", slug>>,
        cookies |-> <<[name |-> "__preview_mode", value |-> "true", path |-> "/",
                       httpOnly |-> TRUE, sameSite |-> "strict",
                       secure |-> nodeEnv # "development", maxAge |-> 60 * 60]>>]

\* GET(request) of the preview route: the response to a request whose query
\* parameters read secret and slug. NextResponse.redirect answers 307.
GET(secret, slug, previewSecret, nodeEnv) ==
  IF secret # previewSecret \/ (slug = Null \/ slug = "")
  THEN [status |-> 401, statusText |-> "Unauthorized",
        error |-> "Invalid token or missing slug",
        location |-> << >>, cookies |-> << >>]
  ELSE [status |-> 307, statusText |-> "",
        error |-> "",
        location |-> <<"/", slug>>,
        cookies |-> <<[name |-> "__preview_mode", value |-> "true", path |-> "/",
                       httpOnly |-> TRUE, sameSite |-> "strict",
                       secure |-> nodeEnv # "development", maxAge |-> 60 * 60]>>]

(* --------------------- calls of the API functions ----------------------- *)

\* a call of fetchAPI, to its end
FetchAPI(env, path, urlParamsObject, preview, settled) ==
  /\ last' = [op |-> "fetchAPI",
              urlParamsObject |-> urlParamsObject, preview |-> preview,
              settled |-> settled,
              out |-> fetchAPI(env.apiUrl, env.apiToken, path, urlParamsObject, preview, settled)]
  /\ UNCHANGED <<cache, now, pending, written, timer>>

\* a call of login, to its end
Login(env, identifier, password, settled) ==
  /\ last' = [op |-> "login", settled |-> settled,
              out |-> login(env.apiUrl, identifier, password, settled)]
  /\ UNCHANGED <<cache, now, pending, written, timer>>

\* a call of register, to its end
Register(env, username, email, password, settled) ==
  /\ last' = [op |-> "register", settled |-> settled,
              out |-> register(env.apiUrl, username, email, password, settled)]
  /\ UNCHANGED <<cache, now, pending, written, timer>>

\* a call of getCurrentUser, to its end
GetCurrentUser(env, token, settled) ==
  /\ last' = [op |-> "getCurrentUser", settled |-> settled,
              out |-> getCurrentUser(env.apiUrl, token, settled)]
  /\ UNCHANGED <<cache, now, pending, written, timer>>

\* a GET request to the preview route, to its response
PreviewGET(secret, slug, previewSecret, nodeEnv) ==
  /\ last' = [op |-> "GET", secret |-> secret, slug |-> slug,
              previewSecret |-> previewSecret,
              out |-> GET(secret, slug, previewSecret, nodeEnv)]
  /\ UNCHANGED <<cache, now, pending, written, timer>>

\* the API functions and the preview route, called in any order with any of
\* the inputs; none of them touches the cache
NextApi ==
  \/ \E env \in Envs, path \in Paths, o \in ParamObjects, preview \in BOOLEAN,
        settled \in Settlements : FetchAPI(env, path, o, preview, settled)
  \/ \E env \in Envs, i \in Identifiers, pw \in Passwords, settled \in Settlements :
        Login(env, i, pw, settled)
  \/ \E env \in Envs, u \in Usernames, i \in Identifiers, pw \in Passwords,
        settled \in Settlements : Register(env, u, i, pw, settled)
  \/ \E env \in Envs, token \in Jwts, settled \in Settlements :
        GetCurrentUser(env, token, settled)
  \/ \E secret \in SecretParams, slug \in SlugParams, ps \in PreviewSecrets,
        ne \in NodeEnvs : PreviewGET(secret, slug, ps, ne)

SpecApi == Init /\ [][NextApi]_vars

(* ------------------------------ properties ------------------------------ *)

\* the step is a wrapper call (of either wrapper) with this derived key, up
\* to its return or its await: only Lookup leaves "hit" or "miss" in last
LookupAny(key) == last'.op \in {"hit", "miss"} /\ last'.key = key

\* the TTL of the latest set of key has run out
Expired(key) == written[key] # NoWrite /\ now > written[key].until

\* the entries of c other than key's, in order
Without(c, key) == SelectSeq(c, LAMBDA e : e.key # key)

\* C1: get(key) never returns the value of an entry whose expiresAt is
\* strictly before the current time; such a get returns null.
C1_GetNeverReturnsExpired ==
  [][\A k \in CacheKeys :
       (Get(k) /\ MapHas(cache, k) /\ MapGet(cache, k).expiresAt < now)
         => last'.val = Null]_vars

\* a get has found its key's entry expired and answered null
C1_Witness ==
  /\ last.op = "get"
  /\ last.val = Null
  /\ last.evicted = {last.key}

\* C2: set(k, v, t) with t > 0 followed by get(k), with no clock advance and
\* no operation on k in between, returns exactly v; more generally a get(k)
\* made before the TTL of the latest set(k, v, t) has run out returns v.
C2_SetThenGetReturnsValue ==
  [][\A k \in CacheKeys :
       Get(k) =>
         /\ (last.op = "set" /\ last.key = k /\ written[k].until > now)
              => last'.val = last.val
         /\ (written[k] # NoWrite /\ written[k].until > now)
              => last'.val = written[k].val]_vars

\* a get has returned the non-null value its key was last set to, inside the TTL
C2_Witness ==
  /\ last.op = "get"
  /\ last.val \in Values \ {Null}
  /\ written[last.key].val = last.val
  /\ written[last.key].until > now

\* C3 as claimed: once a wrapper call with key k has completed successfully,
\* whatever value it resolved with, a later call with key k inside the TTL
\* window returns that result without invoking the wrapped operation (here
\* for the call that comes right after the completion).
C3_LaterCallIsHit ==
  [][\A k \in CacheKeys :
       (last.op = "resolve" /\ last.key = k /\ now <= written[k].until /\ LookupAny(k))
         => (last'.op = "hit" /\ last'.val = last.val /\ pending' = pending)]_vars

\* C4 as claimed: when the wrapped operation rejects, the store is exactly as
\* it was before the call (here for a call that rejects right after its
\* lookup, being the only call in flight).
C4_StoreAsBeforeTheCall ==
  [][\A i \in CallIds, e \in Errors :
       (last.op = "miss" /\ last'.op = "reject" /\ Reject(i, e)
          /\ \A j \in CallIds \ {i} : pending[j] = Idle)
         => (last.evicted = {} /\ cache' = cache)]_vars

\* C4, amended: when the wrapped operation rejects, the call rejects with that
\* same failure and the rejection writes nothing; all the call has done to the
\* store is that its lookup removed the expired entry of its own key, if there
\* was one; and the next call with the same key invokes the wrapped operation
\* again unless an entry was stored under the key meanwhile, and is never
\* answered with the failure.
C4_RejectionStoresNothing ==
  [][/\ \A i \in CallIds, e \in Errors :
          (pending[i] # Idle /\ pending'[i] = Idle /\ last'.op # "resolve" /\ Reject(i, e)) =>
            /\ cache' = cache
            /\ last'.op = "reject" /\ last'.val = e /\ last'.key = pending[i].key
     /\ \A k \in CacheKeys :
          LookupAny(k) =>
            \/ cache' = cache
            \/ Expired(k) /\ cache' = Without(cache, k)
     /\ \A k \in CacheKeys :
          (last.op = "reject" /\ last.key = k /\ LookupAny(k)) =>
            /\ (written[k] = NoWrite \/ Expired(k)) => last'.op = "miss"
            /\ last'.op = "hit" => last'.val = written[k].val /\ last'.val \notin Errors]_vars

\* a call has rejected and its key is not stored
C4_Witness ==
  /\ last.op = "reject"
  /\ last.val \in Errors
  /\ ~MapHas(cache, last.key)
  /\ \A i \in CallIds : pending[i] = Idle

\* C5: after set(k, v, t), once the clock has advanced by more than t seconds
\* with no set(k) in between, get(k) returns null.
C5_GetAfterTtlIsNull ==
  [][\A k \in CacheKeys : (Get(k) /\ Expired(k)) => last'.val = Null]_vars

\* a get made two seconds into the run has found its key's entry expired
C5_Witness ==
  /\ last.op = "get"
  /\ last.evicted = {last.key}
  /\ now >= 2 * MsPerSec

\* C6: when a result is stored under k and the clock then advances past the
\* TTL, the next wrapper call with key k invokes the wrapped operation again,
\* and returns the fresh result when that resolves.
C6_CallAfterTtlInvokesAgain ==
  [][/\ \A k \in CacheKeys, t \in CallTTLs :
          (Expired(k) /\ LookupAny(k) /\ Lookup(k, t)) =>
            /\ last'.op = "miss"
            /\ pending'[NextSlot] = [pc |-> "awaiting", key |-> k, ttl |-> t]
     /\ \A i \in CallIds, v \in Values :
          (pending[i] # Idle /\ pending'[i] = Idle /\ last'.op # "reject" /\ Resolve(i, v)) =>
            /\ last'.op = "resolve" /\ last'.val = v
            /\ get(cache', pending[i].key, now).ret = v]_vars

\* a wrapper call has found its key's entry expired and invoked the operation
C6_Witness ==
  /\ last.op = "miss"
  /\ last.evicted = {last.key}
  /\ \E i \in CallIds : pending[i] # Idle /\ pending[i].key = last.key

\* C7: a get(k) that observes an expired entry removes it: right after it
\* keys() does not contain k, and the other keys are as they were.
C7_GetEvictsExpired ==
  [][\A k \in CacheKeys :
       (Get(k) /\ Expired(k)) =>
         /\ \A n \in 1..Len(keys(cache')) : keys(cache')[n] # k
         /\ keys(cache') = keys(Without(cache, k))]_vars

\* a get has removed its key's expired entry and the other key is still listed
C7_Witness ==
  /\ last.op = "get"
  /\ last.evicted = {last.key}
  /\ Len(keys(cache)) = 1
  /\ keys(cache)[1] # last.key

\* C8: cleanExpired() at instant T removes exactly the entries whose expiry has
\* passed as of T, leaves every other entry unchanged and retrievable, and
\* leaves no stored entry with expiresAt before T.
C8_SweepRemovesExactlyExpired ==
  [][CleanExpired =>
       /\ \A k \in CacheKeys :
            /\ (MapHas(cache, k) /\ Expired(k)) => ~MapHas(cache', k)
            /\ (MapHas(cache, k) /\ ~Expired(k)) =>
                 /\ MapHas(cache', k)
                 /\ MapGet(cache', k) = MapGet(cache, k)
                 /\ get(cache', k, now).ret = written[k].val
            /\ ~MapHas(cache, k) => ~MapHas(cache', k)
       /\ \A n \in 1..Len(cache') : cache'[n].expiresAt >= now]_vars

\* a sweep has removed one entry and kept the other
C8_Witness ==
  /\ last.op = "cleanExpired"
  /\ Cardinality(last.evicted) = 1
  /\ Len(cache) = 1

\* C9: delete(k) removes only the entry under k: afterwards get(k) is null and
\* every other entry is as it was; delete of a key that is not stored leaves
\* the store unchanged.
C9_DeleteRemovesOnlyKey ==
  [][\A k \in CacheKeys :
       Delete(k) =>
         /\ get(cache', k, now).ret = Null
         /\ cache' = Without(cache, k)
         /\ ~MapHas(cache, k) => cache' = cache]_vars

\* a delete has removed its key's entry and the other key's entry is stored
C9_Witness ==
  /\ last.op = "delete"
  /\ last.evicted = {last.key}
  /\ Len(cache) = 1

\* C10: clear() empties the store whatever the TTLs: right after it keys() is
\* empty and get of every key returns null.
C10_ClearEmptiesStore ==
  last.op = "clear" =>
    /\ keys(cache) = << >>
    /\ \A k \in CacheKeys : get(cache, k, now).ret = Null

\* a clear has removed the entries of both keys
C10_Witness ==
  /\ last.op = "clear"
  /\ last.evicted = CacheKeys
  /\ cache = << >>

\* the slots of p holding a call that awaits the wrapped operation for key
AwaitingIn(p, key) == {i \in CallIds : p[i] # Idle /\ p[i].key = key}

\* C11: there is no single-flight. A wrapper call whose lookup misses while
\* another call with the same key is still awaiting its operation invokes the
\* operation on its own (one more call awaits it), a key that is not stored is
\* always such a miss, and every call writes its own result under the key
\* when it resolves, whatever the other call has written meanwhile.
C11_NoSingleFlight ==
  [][/\ \A k \in CacheKeys :
          (LookupAny(k) /\ AwaitingIn(pending, k) # {}) =>
            /\ ~MapHas(cache, k) => last'.op = "miss"
            /\ last'.op = "miss" =>
                 Cardinality(AwaitingIn(pending', k)) = Cardinality(AwaitingIn(pending, k)) + 1
     /\ \A i \in CallIds :
          (last'.op = "resolve" /\ pending[i] # Idle /\ pending'[i] = Idle) =>
            MapGet(cache', pending[i].key) =
              [key |-> pending[i].key, data |-> last'.val,
               expiresAt |-> now + pending[i].ttl * MsPerSec]]_vars

\* two calls with the same key are both awaiting their operation, the second
\* having just missed
C11_Witness ==
  /\ last.op = "miss"
  /\ AwaitingIn(pending, last.key) = CallIds

\* C12 as claimed: wherever the module is loaded, an entry whose expiry has
\* passed is eventually removed from the store (or replaced by a set of its
\* key) although no get, delete or clear is ever issued.
C12_ExpiredEventuallyRemoved ==
  \A k \in CacheKeys : Expired(k) ~> ~Expired(k)

\* C13 as claimed: after set(k, v, 0) the next get(k) returns null whatever
\* the clock reads at that get (here for the get that comes right after the
\* set, at the same instant: the set is the latest operation, and its TTL was
\* zero exactly when the TTL runs until the current instant).
C13_ZeroTtlGetIsAbsent ==
  [][\A k \in CacheKeys :
       (last.op = "set" /\ last.key = k /\ written[k].until = now /\ Get(k))
         => last'.val = Null]_vars

\* C13, amended: a zero TTL gives the entry no life beyond the instant of the
\* set. A get(k) that comes right after set(k, v, 0), the clock still reading
\* the instant of the set, returns v and leaves the entry stored; a get(k)
\* made once the clock has moved past that instant returns null.
C13_ZeroTtlLastsOneInstant ==
  [][\A k \in CacheKeys :
       (last'.op = "get" /\ last'.key = k /\ written[k] # NoWrite) =>
         /\ (last.op = "set" /\ last.key = k /\ written[k].until = now) =>
              (last'.val = last.val /\ cache' = cache)
         /\ written[k].until < now => (last'.val = Null /\ ~MapHas(cache', k))]_vars

\* at instant 0 a get has returned the value of an entry whose TTL runs until
\* instant 0, that is, one set at that instant with TTL 0
C13_Witness ==
  /\ last.op = "get"
  /\ last.val \in Values \ {Null}
  /\ now = 0
  /\ written[last.key].until = 0

\* C14: set(k, v, t) overwrites unconditionally. Whatever k held before, the
\* store afterwards holds exactly one entry under k, with value v and
\* expiresAt = now + t seconds, and the entries of the other keys are as they
\* were, in the same order.
C14_SetOverwrites ==
  [][\A k \in CacheKeys :
       (last'.op = "set" /\ last'.key = k) =>
         /\ Cardinality({n \in 1..Len(cache') : cache'[n].key = k}) = 1
         /\ MapGet(cache', k) =
              [key |-> k, data |-> last'.val, expiresAt |-> written'[k].until]
         /\ Without(cache', k) = Without(cache, k)]_vars

\* a set has overwritten an entry that was stored before the other key's (it
\* still comes first), giving it an expiry earlier than the other entry's
C14_Witness ==
  /\ last.op = "set"
  /\ Len(cache) = 2
  /\ cache[1].key = last.key
  /\ cache[1].data = last.val
  /\ written[last.key].until = cache[1].expiresAt
  /\ cache[1].expiresAt < cache[2].expiresAt
  /\ now > 0

\* the keys listed in l
Listed(l) == {l[n] : n \in 1..Len(l)}

\* C15: keys() reports physical presence. It changes nothing and returns each
\* stored key once, expired or not, in insertion order: a step never swaps two
\* keys that stay stored, and a key that comes in is listed last. A stored key
\* leaves the store only by a get of that key that finds it expired, a delete
\* of that key, a clear, or a cleanExpired that finds it expired.
C15_KeysReportsPresence ==
  [][/\ last'.op = "keys" =>
          /\ cache' = cache
          /\ Len(last'.list) = Cardinality(Listed(last'.list))
          /\ Listed(last'.list) = {k \in CacheKeys : MapHas(cache, k)}
          /\ \A k \in CacheKeys : Expired(k) => k \in Listed(last'.list)
     /\ \A k \in CacheKeys :
          (MapHas(cache, k) /\ ~MapHas(cache', k)) =>
            \/ last'.op = "get" /\ last'.key = k /\ Expired(k)
            \/ last'.op = "delete" /\ last'.key = k
            \/ last'.op = "clear"
            \/ last'.op = "cleanExpired" /\ Expired(k)
     /\ \A k \in CacheKeys, j \in CacheKeys :
          (MapHas(cache', k) /\ MapHas(cache', j) /\ MapHas(cache, j)
             /\ IndexOf(cache', k, 1) < IndexOf(cache', j, 1)) =>
            (MapHas(cache, k) /\ IndexOf(cache, k, 1) < IndexOf(cache, j, 1))]_vars

\* keys() has listed two keys, the first of them expired and the second not
C15_Witness ==
  /\ last.op = "keys"
  /\ Len(last.list) = 2
  /\ Expired(last.list[1])
  /\ ~Expired(last.list[2])

\* C16 as claimed: the store is shared. While an entry is stored under k and
\* its TTL has not run out, whoever wrote it (a direct set, or a call of
\* either wrapper when it resolved), a call of either wrapper whose derived
\* key is k is a cache hit: it returns the stored value and does not invoke
\* its own operation.
C16_StoredEntryIsHitForAnyWrapper ==
  [][\A k \in CacheKeys :
       (LookupAny(k) /\ MapHas(cache, k) /\ ~Expired(k)) =>
         (last'.op = "hit" /\ last'.val = written[k].val /\ pending' = pending)]_vars

\* C17: every failure of fetchAPI is raised as a StrapiApiError carrying a
\* statusCode: when the server answered, its HTTP status, with the response
\* body as details; when the request got no response, 0; for any other
\* failure inside the call, 500, with details null. fetchAPI throws exactly
\* when its request does not succeed.
C17_FailuresAreStrapiApiErrors ==
  last.op = "fetchAPI" =>
    /\ last.out.threw = ~last.settled.ok
    /\ last.out.threw =>
         /\ last.out.error.name = "StrapiApiError"
         /\ last.out.error.statusCode \in Nat
         /\ last.settled.hasResponse =>
              /\ last.out.error.statusCode = last.settled.response.status
              /\ last.out.error.details = last.settled.response.data
         /\ (~last.settled.hasResponse /\ last.settled.hasRequest) =>
              /\ last.out.error.statusCode = 0
              /\ last.out.error.details = NullBody
         /\ (~last.settled.hasResponse /\ ~last.settled.hasRequest) =>
              /\ last.out.error.statusCode = 500
              /\ last.out.error.details = NullBody

\* fetchAPI has thrown for a 404 answer whose body carries an error message
C17_Witness ==
  /\ last.op = "fetchAPI"
  /\ last.out.threw
  /\ last.settled.hasResponse /\ last.settled.hasRequest
  /\ last.out.error.statusCode = 404
  /\ last.out.error.details.message = "Invalid identifier or password"

\* the message each operation of the auth module falls back on when the
\* server's answer gives none
Fallbacks ==
  [login |-> "Authentication failed",
   register |-> "Registration failed",
   getCurrentUser |-> "Failed to retrieve user profile"]

\* C18: every failure of login, register and getCurrentUser is raised as an
\* AuthError carrying a status code: when a response was received, its status,
\* with the server's error message or, when the answer gives none, the
\* operation's fallback message; when no response was received, 401.
C18_FailuresAreAuthErrors ==
  last.op \in DOMAIN Fallbacks =>
    /\ last.out.threw = ~last.settled.ok
    /\ last.out.threw =>
         /\ last.out.error.name = "AuthError"
         /\ last.out.error.statusCode \in Nat
         /\ last.settled.hasResponse =>
              /\ last.out.error.statusCode = last.settled.response.status
              /\ last.out.error.message =
                   IF /\ last.settled.response.data.shape = "error"
                      /\ last.settled.response.data.message \notin {Undefined, ""}
                   THEN last.settled.response.data.message
                   ELSE Fallbacks[last.op]
         /\ ~last.settled.hasResponse => last.out.error.statusCode = 401

\* login has thrown for a 404 answer that carries the server's message
C18_Witness ==
  /\ last.op = "login"
  /\ last.out.threw
  /\ last.settled.hasResponse
  /\ last.out.error.statusCode = 404
  /\ last.out.error.message = "Invalid identifier or password"

PercentEncode(s) ==
  [i \in 1..Len(s) |->
     IF s[i] = "*" THEN "%2A"
     ELSE IF s[i] \in DOMAIN Escaped THEN Escaped[s[i]] ELSE s[i]]

RECURSIVE Leaves(_, _)
\* the leaf values below the entries es, each with its bracketed path, the
\* entries lying under the path prefix
Leaves(es, prefix) ==
  IF es = << >> THEN << >>
  ELSE LET path == IF prefix = << >> THEN es[1].k ELSE prefix \o <<"[">> \o es[1].k \o <<"]">>
       IN  (IF es[1].v.t = "str"
            THEN <<[k |-> path, v |-> es[1].v.s]>>
            ELSE Leaves(es[1].v.e, path))
           \o Leaves(Tail(es), prefix)

\* the query string with one parameter per leaf value
BracketedQuery(o) ==
  Join([i \in 1..Len(Leaves(o, << >>)) |->
          PercentEncode(Leaves(o, << >>)[i].k) \o <<"=">> \o PercentEncode(Leaves(o, << >>)[i].v)],
       <<"&">>)

\* C20 as claimed: fetchAPI serializes a nested urlParamsObject into one query
\* parameter per leaf value, keyed by the bracketed path and URL-encoded
\* ({filters: {slug: {$eq: 'test'}}, populate: '*'} gives
\* filters%5Bslug%5D%5B%24eq%5D=test&populate=%2A), at every nesting depth.
C20_NestedParamsAreBracketed ==
  (/\ last.op = "fetchAPI"
   /\ ~last.preview
   /\ \E i \in 1..Len(last.urlParamsObject) : last.urlParamsObject[i].v.t = "obj")
    => last.out.queryString = BracketedQuery(last.urlParamsObject)

\* the entries of the object o other than the property k, in order
OtherThan(o, k) == SelectSeq(o, LAMBDA e : e.k # k)

\* the parameter k=v stands in the query string qs
HasParam(qs, k, v) ==
  \E i \in 1..Len(qs) :
    /\ i + 2 <= Len(qs)
    /\ qs[i] = k /\ qs[i + 1] = "=" /\ qs[i + 2] = v
    /\ (i = 1 \/ qs[i - 1] = "&")
    /\ (i + 2 = Len(qs) \/ qs[i + 3] = "&")

\* C21: fetchAPI adds publicationState=preview to the query parameters
\* exactly when preview is true, in place of any publicationState the caller
\* passed, the caller's other parameters staying as they were; when preview
\* is false the query parameters are the caller's, a publicationState among
\* them only if the caller passed one.
C21_PreviewAddsPublicationState ==
  last.op = "fetchAPI" =>
    IF last.preview
    THEN /\ Len(SelectSeq(last.out.queryParams, LAMBDA e : e.k = <<"publicationState">>)) = 1
         /\ \A i \in 1..Len(last.out.queryParams) :
              last.out.queryParams[i].k = <<"publicationState">> =>
                last.out.queryParams[i].v = Str(<<"preview">>)
         /\ OtherThan(last.out.queryParams, <<"publicationState">>)
              = OtherThan(last.urlParamsObject, <<"publicationState">>)
         /\ HasParam(last.out.queryString, "publicationState", "preview")
         /\ Len(SelectSeq(last.out.queryString, LAMBDA x : x = "publicationState")) = 1
    ELSE /\ last.out.queryParams = last.urlParamsObject
         /\ ~HasParam(last.out.queryString, "publicationState", "preview")
         /\ Len(SelectSeq(last.out.queryString, LAMBDA x : x = "publicationState"))
              = Len(SelectSeq(last.urlParamsObject, LAMBDA e : e.k = <<"publicationState">>))

\* a preview call whose caller passed publicationState 'live' has requested
\* publicationState=preview
C21_Witness ==
  /\ last.op = "fetchAPI"
  /\ last.preview
  /\ \E i \in 1..Len(last.urlParamsObject) :
       /\ last.urlParamsObject[i].k = <<"publicationState">>
       /\ last.urlParamsObject[i].v = Str(<<"live">>)
  /\ HasParam(last.out.queryString, "publicationState", "preview")

\* C22 as claimed: the preview route tells its failures apart. A secret that
\* does not match the configured one is answered with status 401, and a
\* request with the right secret but no slug parameter with status 400.
C22_PreviewFailuresDistinguished ==
  last.op = "GET" =>
    /\ last.secret # last.previewSecret => last.out.status = 401
    /\ (last.secret = last.previewSecret /\ last.slug = Null) => last.out.status = 400

\* C23: the expiry boundary is inclusive. While the clock reads exactly the
\* instant the TTL of the latest set of k runs until, get(k) still returns the
\* value and leaves the store as it is, and cleanExpired keeps the entry; a
\* get removes an entry and answers null for it only when the clock is past
\* that instant.
C23_BoundaryInclusive ==
  [][\A k \in CacheKeys :
       /\ (last'.op = "get" /\ last'.key = k /\ written[k] # NoWrite) =>
            IF now > written[k].until
            THEN last'.val = Null /\ ~MapHas(cache', k)
            ELSE last'.val = written[k].val /\ cache' = cache
       /\ (last'.op \in {"get", "cleanExpired"}
             /\ written[k] # NoWrite /\ written[k].until = now) =>
            (MapHas(cache', k) /\ MapGet(cache', k) = MapGet(cache, k))]_vars

\* a get made after the clock has moved has returned a value whose TTL runs
\* until exactly the current instant
C23_Witness ==
  /\ last.op = "get"
  /\ last.val \in Values \ {Null}
  /\ now > 0
  /\ written[last.key].until = now

\* C24: a wrapper call that finds its key absent or expired invokes the wrapped
\* operation exactly once: one more call awaits it and the other calls are as
\* they were. When the operation resolves, at whatever instant, the call
\* stores the result under the key with expiresAt = the instant of the
\* resolution + TTL, returns that same result and is over.
C24_MissInvokesOnceAndStoresAtResolution ==
  [][/\ \A k \in CacheKeys :
          (LookupAny(k) /\ (~MapHas(cache, k) \/ Expired(k))) =>
            /\ last'.op = "miss"
            /\ pending'[NextSlot] # Idle /\ pending'[NextSlot].key = k
            /\ \A j \in CallIds \ {NextSlot} : pending'[j] = pending[j]
     /\ \A i \in CallIds :
          (last'.op = "resolve" /\ pending[i] # Idle /\ pending'[i] = Idle) =>
            /\ MapGet(cache', pending[i].key).data = last'.val
            /\ MapGet(cache', pending[i].key).expiresAt = now + pending[i].ttl * MsPerSec
            /\ written'[pending[i].key].until = MapGet(cache', pending[i].key).expiresAt
            /\ \A j \in CallIds \ {i} : pending'[j] = pending[j]]_vars

\* a call has resolved a second or more into the run and its result is stored
\* to expire one second after the current instant, while the other call is
\* still awaiting its operation
C24_Witness ==
  /\ last.op = "resolve"
  /\ now >= MsPerSec
  /\ MapHas(cache, last.key)
  /\ MapGet(cache, last.key).data = last.val
  /\ MapGet(cache, last.key).expiresAt = now + MsPerSec
  /\ \E i \in CallIds : pending[i] # Idle

Intervened(key) ==
  \/ last.op \in {"delete", "set", "resolve"} /\ last.key = key
  \/ last.op = "clear"

\* C26: a call in flight writes without looking. When the step before its
\* resolution deleted its key, cleared the store, set the key directly or was
\* another call's write for the key, the resolving call still stores its own
\* result under the key, with its own window, re-creating or overwriting the
\* entry, and touches no other key.
C26_InFlightWriteIsUnconditional ==
  [][\A i \in CallIds :
       (last'.op = "resolve" /\ pending[i] # Idle /\ pending'[i] = Idle
          /\ Intervened(pending[i].key)) =>
         /\ MapHas(cache', pending[i].key)
         /\ MapGet(cache', pending[i].key) =
              [key |-> pending[i].key, data |-> last'.val,
               expiresAt |-> now + pending[i].ttl * MsPerSec]
         /\ Without(cache', pending[i].key) = Without(cache, pending[i].key)]_vars

\* a call has resolved and its result is the entry under the key, while a
\* second call for the same key is still in flight and will write in its turn
C26_Witness ==
  /\ last.op = "resolve"
  /\ MapHas(cache, last.key)
  /\ MapGet(cache, last.key).data = last.val
  /\ written[last.key].val = last.val
  /\ \E i \in CallIds : pending[i] # Idle /\ pending[i].key = last.key

\* a get of key would return null: nothing is stored under it, or null is
Absent(c, key) == ~MapHas(c, key) \/ MapGet(c, key).data = Null

\* C27: absence is stable. A get that returns null for a key leaves the key
\* absent, having removed the entry if it found one expired; while a key is
\* absent every step other than a set of that key leaves it absent, whichever
\* way the clock moves, and every get of it returns null.
C27_AbsenceIsStable ==
  [][\A k \in CacheKeys :
       /\ (last'.op = "get" /\ last'.key = k /\ last'.val = Null) =>
            /\ Absent(cache', k)
            /\ (MapHas(cache, k) /\ now > MapGet(cache, k).expiresAt) => ~MapHas(cache', k)
       /\ (Absent(cache, k) /\ ~(last'.op = "set" /\ last'.key = k)) =>
            /\ Absent(cache', k)
            /\ (last'.op = "get" /\ last'.key = k) => last'.val = Null]_vars

\* a get has found nothing under its key and had nothing to remove, at an
\* instant the clock was set back to: the other key's entry expires later than
\* any set at this instant could make it
C27_Witness ==
  /\ last.op = "get" /\ last.val = Null /\ last.evicted = {}
  /\ ~MapHas(cache, last.key)
  /\ \E n \in 1..Len(cache) : cache[n].expiresAt > now + 2 * MsPerSec

\* C28: only set adds keys. A get, delete, clear, cleanExpired or keys never
\* adds a key and leaves every entry that stays stored with the value and the
\* expiresAt it had; keys leaves the store as it is; a step after which a key
\* is stored that was not stored before is a set.
C28_OnlySetAddsKeys ==
  [][/\ last'.op \in {"get", "delete", "clear", "cleanExpired", "keys"} =>
          \A k \in CacheKeys :
            MapHas(cache', k) => (MapHas(cache, k) /\ MapGet(cache', k) = MapGet(cache, k))
     /\ last'.op = "keys" => cache' = cache
     /\ (\E k \in CacheKeys : MapHas(cache', k) /\ ~MapHas(cache, k)) => last'.op = "set"]_vars

\* a get or a sweep has removed one key and the other key's entry is still
\* stored
C28_Witness ==
  /\ last.op \in {"get", "cleanExpired"}
  /\ last.evicted # {}
  /\ Len(cache) = 1
  /\ cache[1].key \notin last.evicted

\* C29: there is no sliding expiration. A get, direct or made by a wrapper,
\* that finds an entry not yet expired leaves the whole store as it is; a
\* wrapper hit also starts no call; and after every step each stored entry
\* expires at the instant its last set fixed.
C29_NoSlidingExpiration ==
  [][/\ \A k \in CacheKeys :
          (last'.op \in {"get", "hit", "miss"} /\ last'.key = k
             /\ MapHas(cache, k) /\ now <= MapGet(cache, k).expiresAt) =>
            cache' = cache
     /\ last'.op = "hit" => (cache' = cache /\ pending' = pending)
     /\ \A k \in CacheKeys :
          MapHas(cache', k) => MapGet(cache', k).expiresAt = written'[k].until]_vars

\* a wrapper call has been served, a second or more into the run, from an
\* entry that still expires when its set said
C29_Witness ==
  /\ last.op = "hit"
  /\ now >= MsPerSec
  /\ MapGet(cache, last.key).expiresAt = written[last.key].until
  /\ written[last.key].val = last.val

====
